---- MODULE Spec2Model ----
(***************************************************************************)
(* Window-base / control-lifecycle layer of native-windows-gui             *)
(* (src/src/controls/base/mod.rs): window creation with style flags,       *)
(* typed data attached to window slots, recursive teardown (free_handle)   *)
(* and identity-based destruction (destroy_control).                       *)
(*                                                                         *)
(* A u32 style word is modelled as the set of its set bit positions:       *)
(* `|` is \cup, `&` is \cap, `!= 0` is `# {}`.                             *)
(* A raw pointer is an allocation number, NULL being 0. Control            *)
(* identifiers are opaque to this layer: an identity record carries the     *)
(* number of its own allocation as its identifier.                         *)
(***************************************************************************)
EXTENDS Integers, Sequences, FiniteSets, TLC

\* ---- bounds of the model
MaxHandles == 3
MaxAlloc == 2
MaxOffset == 1

\* ---- program constants
NULL == 0
PtrSize == 8
GWLP_USERDATA == -21

WS_OVERLAPPED == {}
WS_MAXIMIZEBOX == {16}
WS_MINIMIZEBOX == {17}
WS_THICKFRAME == {18}
WS_SYSMENU == {19}
WS_CAPTION == {22, 23}
WS_VISIBLE == {28}
WS_CHILD == {30}
WS_OVERLAPPEDWINDOW ==
    WS_OVERLAPPED \cup WS_CAPTION \cup WS_SYSMENU \cup WS_THICKFRAME
        \cup WS_MINIMIZEBOX \cup WS_MAXIMIZEBOX

\* ---- domains
Handles == 1..MaxHandles
Ptrs == 1..MaxAlloc
IDs == Ptrs
Offsets == 0..MaxOffset

\* index of an offset slot: (offset*mem::size_of::<usize>()) as i32
SlotOff(offset) == offset * PtrSize
Slots == {GWLP_USERDATA} \cup {SlotOff(o) : o \in Offsets}

\* extra_style words a caller passes (none, WS_CHILD, WS_BORDER, WS_POPUP)
ExtraStyles == {{}, WS_CHILD, {23}, {31}}
\* WindowBase descriptors; parent 0 is None (text, size, position and class
\* are handed to the OS unchanged and are left out)
WindowBase ==
    [visible : BOOLEAN, resizable : BOOLEAN, extra_style : ExtraStyles,
     parent : {0} \cup IDs]
\* the descriptors of plain windows: visible, resizable, no extra style
PlainBase == {b \in WindowBase : b.visible /\ b.resizable /\ b.extra_style = {}}
\* the private data a custom widget stores at an offset slot
PrivateData == {"a", "b"}

VARIABLES
    wnd,       \* OS windows: handle -> [st, parent]
    longs,     \* window longs: handle -> slot index -> pointer
    heap,      \* Box allocations: pointer -> [status, data, owner]
    controls,  \* the Ui's control collection: id -> handle (0: absent)
    crashed,   \* the process died in undefined behaviour
    last       \* the last call: its arguments, result and the calls it made

vars == <<wnd, longs, heap, controls, crashed, last>>

\* ---- the OS window tree
RECURSIVE Under(_, _, _)
Under(w, d, h) ==
    /\ w[d].parent # 0
    /\ (w[d].parent = h \/ Under(w, w[d].parent, h))

\* the live descendants (direct and indirect children) of h
Desc(w, h) == {d \in Handles : w[d].st = "created" /\ Under(w, d, h)}

\* the orders in which the OS may enumerate a set of windows
Orders(S) ==
    {s \in [1..Cardinality(S) -> S] : \A i, j \in DOMAIN s : s[i] = s[j] => i = j}

\* ---- the machine state a call works on
Mach(ub) ==
    [wnd |-> wnd, longs |-> longs, heap |-> heap, crashed |-> crashed,
     log |-> <<>>, ub |-> ub]

Ev(e, h, p) == [ev |-> e, h |-> h, p |-> p]
Emit(m, e) == [m EXCEPT !.log = Append(@, e)]

get_window_long(m, h, idx) == m.longs[h][idx]

set_window_long(m, h, idx, v) ==
    IF m.crashed \/ m.wnd[h].st # "created" THEN m
    ELSE [m EXCEPT !.longs[h][idx] = v]

\* delivery of NWG_DESTROY_NOTICE to the window's subclass procedure
send_message(m, h) ==
    IF m.crashed THEN m ELSE Emit(m, Ev("notice", h, NULL))

\* Box::into_raw(Box::new(data)): the first unused allocation
FreshPtr(hp) == CHOOSE p \in Ptrs : hp[p].status = "unalloc" /\
                    \A q \in Ptrs : hp[q].status = "unalloc" => p <= q
CanAlloc(hp) == \E p \in Ptrs : hp[p].status = "unalloc"

\* Box::from_raw(p), dropped at once; the call is logged with the pointer it
\* was given. A null or dangling p is undefined behaviour: the process dies,
\* or (while m.ub lasts) runs on.
BoxFromRaw(m, p, h) ==
    IF m.crashed THEN m
    ELSE IF p # NULL /\ m.heap[p].status = "live"
    THEN Emit([m EXCEPT !.heap[p] = [status |-> "freed", data |-> 0, owner |-> 0]],
              Ev("reclaim", h, p))
    ELSE IF m.ub > 0
    THEN Emit([m EXCEPT !.ub = @ - 1],
              Ev(IF p = NULL THEN "reclaim_null" ELSE "reclaim_freed", h, p))
    ELSE Emit([m EXCEPT !.crashed = TRUE],
              Ev(IF p = NULL THEN "reclaim_null" ELSE "reclaim_freed", h, p))

\* DestroyWindow: the window and its descendants go, with their window longs
DestroyWindow(m, h) ==
    IF m.crashed \/ m.wnd[h].st # "created" THEN m
    ELSE LET gone == {h} \cup Desc(m.wnd, h) IN
         Emit([m EXCEPT
                 !.wnd = [x \in Handles |->
                            IF x \in gone
                            THEN [st |-> "destroyed", parent |-> 0]
                            ELSE m.wnd[x]],
                 !.longs = [x \in Handles |->
                            IF x \in gone THEN [i \in Slots |-> NULL]
                            ELSE m.longs[x]]],
              Ev("DestroyWindow", h, NULL))

\* ---- typed data attached to a window

\* set_handle_data / set_handle_data_off: box the data, store the pointer
StoreData(m, h, idx, data) ==
    LET data_raw == FreshPtr(m.heap) IN
    set_window_long(
        [m EXCEPT !.heap[data_raw] =
                      [status |-> "live", data |-> data, owner |-> h]],
        h, idx, data_raw)

set_handle_data(m, h, data) == StoreData(m, h, GWLP_USERDATA, data)

set_handle_data_off(m, h, data, offset) == StoreData(m, h, SlotOff(offset), data)

None == [some |-> FALSE, ref |-> NULL]
Some(p) == [some |-> TRUE, ref |-> p]

get_handle_data(m, h) ==
    LET data_ptr == get_window_long(m, h, GWLP_USERDATA) IN
    IF data_ptr # 0 THEN Some(data_ptr) ELSE None

get_handle_data_off(m, h, offset) ==
    LET data_ptr == get_window_long(m, h, SlotOff(offset)) IN
    IF data_ptr # 0 THEN Some(data_ptr) ELSE None

free_handle_data(m, h) ==
    LET data_ptr == get_window_long(m, h, GWLP_USERDATA) IN
    set_window_long(BoxFromRaw(m, data_ptr, h), h, GWLP_USERDATA, NULL)

free_handle_data_off_keep(m, h, offset) ==
    BoxFromRaw(m, get_window_long(m, h, SlotOff(offset)), h)

free_handle_data_off(m, h, offset) ==
    LET data_ptr == get_window_long(m, h, SlotOff(offset)) IN
    set_window_long(BoxFromRaw(m, data_ptr, h), h, SlotOff(offset), NULL)

\* ---- teardown

free_child_data(m, h) == free_handle_data(send_message(m, h), h)

notice_child_destroy_and_free(m, h) == free_child_data(m, h)

notice_child_destroy(m, h) == send_message(m, h)

\* EnumChildWindows(handle, proc, 0): proc on every descendant, in the OS's
\* order; both procs return 1, so the enumeration never stops early
RECURSIVE EnumChildWindows(_, _, _)
EnumChildWindows(m, order, proc) ==
    IF order = <<>> THEN m
    ELSE EnumChildWindows(
            IF proc = "notice_child_destroy"
            THEN notice_child_destroy(m, Head(order))
            ELSE free_child_data(m, Head(order)),
            Tail(order), proc)

\* the body of free_handle's `if !data_raw.is_null()`
Teardown(m, h, order, data_raw) ==
    LET noticed == EnumChildWindows(send_message(m, h), order,
                                    "notice_child_destroy")
        freed == EnumChildWindows(noticed, order, "free_child_data")
        destroyed == DestroyWindow(freed, h)
    IN set_window_long(BoxFromRaw(destroyed, data_raw, h),
                       h, GWLP_USERDATA, NULL)

free_handle_unguarded(m, h, order) ==
    Teardown(m, h, order, get_window_long(m, h, GWLP_USERDATA))

free_handle(m, h, order) ==
    LET data_raw == get_window_long(m, h, GWLP_USERDATA) IN
    IF data_raw # NULL THEN Teardown(m, h, order, data_raw) ELSE m

\* Ui.remove_control(id): tears the control's window down and drops from the
\* collection every identifier whose window went with it
remove_control(m, ctl, id, order) ==
    LET h == ctl[id]
        after == free_handle(m, h, order)
        removed == {i \in IDs : ctl[i] # 0 /\ m.wnd[ctl[i]].st = "created"
                                  /\ after.wnd[ctl[i]].st = "destroyed"}
    IN [m |-> after,
        controls |-> [i \in IDs |-> IF i \in removed THEN 0 ELSE ctl[i]],
        res |-> [ok |-> TRUE, val |-> removed]]

destroy_control_eager(m, ctl, h, order) ==
    LET data_raw == get_window_long(m, h, GWLP_USERDATA) IN
    IF data_raw # NULL
    THEN remove_control(m, ctl, m.heap[data_raw].data, order)
    ELSE [m |-> DestroyWindow(m, h), controls |-> ctl,
          res |-> [ok |-> FALSE, val |-> "NO_UI"]]

destroy_control(m, ctl, h, order) ==
    LET data_raw == get_window_long(m, h, GWLP_USERDATA) IN
    IF data_raw # NULL
    THEN remove_control(m, ctl, m.heap[data_raw].data, order)
    ELSE [m |-> m, controls |-> ctl, res |-> [ok |-> FALSE, val |-> "NO_UI"]]

\* ---- creation

\* "Eval the window flags"
WindowFlags_no_sysmenu(base, parent) ==
    (IF base.visible THEN WS_VISIBLE ELSE {})
    \cup (IF parent # NULL THEN WS_CHILD ELSE {})
    \cup (IF parent = NULL
          THEN IF base.resizable THEN WS_OVERLAPPEDWINDOW
               ELSE WS_OVERLAPPED \cup WS_CAPTION
                        \cup WS_MINIMIZEBOX \cup WS_MAXIMIZEBOX
          ELSE {})
    \cup base.extra_style

WindowFlags(base, parent) ==
    (IF base.visible THEN WS_VISIBLE ELSE {})
    \cup (IF parent # NULL THEN WS_CHILD ELSE {})
    \cup (IF parent = NULL
          THEN IF base.resizable THEN WS_OVERLAPPEDWINDOW
               ELSE WS_OVERLAPPED \cup WS_CAPTION \cup WS_SYSMENU
                        \cup WS_MINIMIZEBOX \cup WS_MAXIMIZEBOX
          ELSE {})
    \cup base.extra_style

OsEv(e, h, flags) == [ev |-> e, h |-> h, flags |-> flags]

Err == [ok |-> FALSE, val |-> "()"]

\* CreateWindowExW succeeds only with a free handle and a live (or no) parent,
\* and may fail even then (os_ok)
CanCreate(w, parent) ==
    /\ \E x \in Handles : w[x].st = "unbound"
    /\ parent = NULL \/ w[parent].st = "created"
NewHandle(w) == CHOOSE x \in Handles : w[x].st = "unbound" /\
                    \A y \in Handles : w[y].st = "unbound" => x <= y

\* create_base from CreateWindowExW on, the parent handle being resolved
CreateWindow(w, base, parent, os_ok, log0) ==
    LET flags == WindowFlags(base, parent)
        log1 == Append(log0, OsEv("CreateWindowExW", parent, flags))
    IN IF ~(os_ok /\ CanCreate(w, parent))
       THEN [wnd |-> w, log |-> log1, res |-> Err]
       ELSE LET hwnd == NewHandle(w)
                log2 == IF flags \cap WS_OVERLAPPEDWINDOW # {}
                        THEN Append(log1, OsEv("fix_overlapped_window_size", hwnd, {}))
                        ELSE log1
            IN [wnd |-> [w EXCEPT ![hwnd] = [st |-> "created", parent |-> parent]],
                log |-> Append(log2, OsEv("SetWindowSubclass", hwnd, {})),
                res |-> [ok |-> TRUE, val |-> hwnd]]

create_base_orphan(ctl, w, base, os_ok) ==
    CreateWindow(w, base, IF base.parent = 0 THEN NULL ELSE ctl[base.parent],
                 os_ok, <<OsEv("GetModuleHandleW", NULL, {})>>)

create_base(ctl, w, base, os_ok) ==
    LET log0 == <<OsEv("GetModuleHandleW", NULL, {})>> IN
    IF base.parent # 0 /\ ctl[base.parent] = 0
    THEN [wnd |-> w, log |-> log0, res |-> Err]
    ELSE CreateWindow(w, base,
                      IF base.parent = 0 THEN NULL ELSE ctl[base.parent],
                      os_ok, log0)

\* ---- the calls

NoBase == [visible |-> FALSE, resizable |-> FALSE, extra_style |-> {}, parent |-> 0]
NoRes == [ok |-> TRUE, val |-> 0]

\* a slot of a window: DefaultSlot, or the offset of an offset slot
DefaultSlot == -1

\* the record of a call: op and its arguments (h, slot, arg, base), the
\* pointer it stored or read (p), its result (res), the calls it made (log),
\* the enumerated descendants with their parents (tree), whether free_handle
\* found data (acted), and whether the call before was free_handle on the
\* same handle (rep) and found data (rep_acted)
Call(op, h, slot) ==
    [op |-> op, h |-> h, slot |-> slot, arg |-> 0, p |-> NULL, base |-> NoBase,
     res |-> NoRes, log |-> <<>>, tree |-> <<>>, acted |-> FALSE,
     rep |-> FALSE, rep_acted |-> FALSE]

Tree(h) == [d \in Desc(wnd, h) |-> wnd[d].parent]

\* a specification records the calls its properties are about (rec); of the
\* others it keeps only that one was made
Record(rec, call) == IF rec THEN call ELSE Call("other", 0, DefaultSlot)

Commit(m) ==
    /\ wnd' = m.wnd
    /\ longs' = m.longs
    /\ heap' = m.heap
    /\ crashed' = m.crashed

Live(h) == wnd[h].st = "created"

\* how many undefined operations a call on h may survive: none, or up to one
\* for each window it visits whose default slot is null
UbSites(h) ==
    0..Cardinality({x \in {h} \cup Desc(wnd, h) : longs[x][GWLP_USERDATA] = NULL})

CreateBaseFrom(bases, rec) ==
    \E base \in bases, os_ok \in BOOLEAN :
        LET r == create_base(controls, wnd, base, os_ok) IN
        /\ ~crashed
        /\ wnd' = r.wnd
        /\ last' = Record(rec, [Call("create_base", 0, DefaultSlot) EXCEPT
                                    !.base = base, !.res = r.res, !.log = r.log])
        /\ UNCHANGED <<longs, heap, controls, crashed>>

\* the Ui stores a control's identity record (WindowData) in the default
\* slot, each record with an identifier of its own; a slot is not attached
\* twice without a detach in between
SetHandleData(rec) ==
    \E h \in Handles :
        LET id == FreshPtr(heap) IN
        /\ ~crashed /\ Live(h) /\ CanAlloc(heap)
        /\ longs[h][GWLP_USERDATA] = NULL
        /\ Commit(set_handle_data(Mach(0), h, id))
        /\ last' = Record(rec, [Call("set_handle_data", h, DefaultSlot) EXCEPT
                                    !.arg = id, !.p = FreshPtr(heap)])
        /\ UNCHANGED controls

SetHandleDataOffAt(offsets, values, rec) ==
    \E h \in Handles, offset \in offsets, data \in values :
        /\ ~crashed /\ Live(h) /\ CanAlloc(heap)
        /\ longs[h][SlotOff(offset)] = NULL
        /\ Commit(set_handle_data_off(Mach(0), h, data, offset))
        /\ last' = Record(rec, [Call("set_handle_data_off", h, offset) EXCEPT
                                    !.arg = data, !.p = FreshPtr(heap)])
        /\ UNCHANGED controls

\* a caller detaches only what is attached
FreeHandleData(rec) ==
    \E h \in Handles :
        /\ ~crashed /\ Live(h)
        /\ longs[h][GWLP_USERDATA] # NULL
        /\ Commit(free_handle_data(Mach(0), h))
        /\ last' = Record(rec, [Call("free_handle_data", h, DefaultSlot) EXCEPT
                                    !.p = longs[h][GWLP_USERDATA]])
        /\ UNCHANGED controls

FreeHandleDataOff(rec) ==
    \E h \in Handles, offset \in Offsets :
        /\ ~crashed /\ Live(h)
        /\ longs[h][SlotOff(offset)] # NULL
        /\ Commit(free_handle_data_off(Mach(0), h, offset))
        /\ last' = Record(rec, [Call("free_handle_data_off", h, offset) EXCEPT
                                    !.p = longs[h][SlotOff(offset)]])
        /\ UNCHANGED controls

\* the Ui enters a control in its collection under the identifier of the
\* identity record its window carries
InsertControl ==
    \E h \in Handles :
        LET p == longs[h][GWLP_USERDATA] IN
        /\ ~crashed /\ Live(h) /\ p # NULL
        /\ controls[heap[p].data] = 0
        /\ \A i \in IDs : controls[i] # h
        /\ controls' = [controls EXCEPT ![heap[p].data] = h]
        /\ last' = Call("other", 0, DefaultSlot)
        /\ UNCHANGED <<wnd, longs, heap, crashed>>

FreeHandle(rec) ==
    \E h \in Handles :
        \E ub \in UbSites(h), order \in Orders(Desc(wnd, h)) :
            LET m == free_handle(Mach(ub), h, order) IN
            /\ ~crashed /\ wnd[h].st # "unbound"
            /\ Commit(m)
            /\ last' = Record(rec, [Call("free_handle", h, DefaultSlot) EXCEPT
                           !.p = longs[h][GWLP_USERDATA],
                           !.acted = (longs[h][GWLP_USERDATA] # NULL),
                           !.log = m.log,
                           !.tree = Tree(h),
                           !.rep = (last.op = "free_handle" /\ last.h = h),
                           !.rep_acted = (last.op = "free_handle" /\ last.h = h
                                            /\ last.acted)])
            /\ UNCHANGED controls

\* destroy_control on a window with an identity record is called for a
\* control of the collection
DestroyControl ==
    \E h \in Handles :
        \E ub \in UbSites(h), order \in Orders(Desc(wnd, h)) :
            LET p == longs[h][GWLP_USERDATA]
                r == destroy_control(Mach(ub), controls, h, order)
            IN
            /\ ~crashed /\ wnd[h].st # "unbound"
            /\ p # NULL => controls[heap[p].data] = h
            /\ Commit(r.m)
            /\ controls' = r.controls
            /\ last' = [Call("destroy_control", h, DefaultSlot) EXCEPT
                           !.p = p, !.acted = (p # NULL), !.res = r.res,
                           !.log = r.m.log, !.tree = Tree(h)]

Init ==
    /\ wnd = [h \in Handles |-> [st |-> "unbound", parent |-> 0]]
    /\ longs = [h \in Handles |-> [i \in Slots |-> NULL]]
    /\ heap = [p \in Ptrs |-> [status |-> "unalloc", data |-> 0, owner |-> 0]]
    /\ controls = [i \in IDs |-> 0]
    /\ crashed = FALSE
    /\ last = Call("none", 0, DefaultSlot)

\* the life of windows, their data and the collection
Next ==
    \/ CreateBaseFrom(PlainBase, FALSE)
    \/ SetHandleData(FALSE)
    \/ FreeHandleData(FALSE)
    \/ InsertControl
    \/ FreeHandle(TRUE)
    \/ DestroyControl

Spec == Init /\ [][Next]_vars

\* ---- creation, over every descriptor

\* create_base reads the collection and hands the parent's handle to the OS.
\* The states it is called in: the first k windows exist, top-level, each
\* entered in the collection or not; the first d of them were torn down by
\* free_handle (which needs their identity record and leaves their
\* identifier in the collection). A record older than one of the collection
\* and not in it was detached.
CreateConfigs ==
    {c \in [k : 0..MaxHandles, d : 0..MaxHandles, ctl : [IDs -> 0..MaxHandles]] :
        /\ c.d <= c.k
        /\ \A i \in IDs : c.ctl[i] <= c.k
        /\ \A i, j \in IDs : (c.ctl[i] # 0 /\ c.ctl[i] = c.ctl[j]) => i = j
        /\ \A h \in 1..c.d : \E i \in IDs : c.ctl[i] = h}

IdOf(ctl, h) == CHOOSE i \in IDs : ctl[i] = h

InitCreate ==
    \E c \in CreateConfigs :
        /\ wnd = [h \in Handles |->
                    [st |-> IF h <= c.d THEN "destroyed"
                            ELSE IF h <= c.k THEN "created" ELSE "unbound",
                     parent |-> 0]]
        /\ longs = [h \in Handles |-> [s \in Slots |->
                      IF s = GWLP_USERDATA /\ h > c.d /\ (\E i \in IDs : c.ctl[i] = h)
                      THEN IdOf(c.ctl, h) ELSE NULL]]
        /\ heap = [p \in Ptrs |->
                     IF c.ctl[p] > c.d
                     THEN [status |-> "live", data |-> p, owner |-> c.ctl[p]]
                     ELSE IF \E q \in Ptrs : q >= p /\ c.ctl[q] # 0
                     THEN [status |-> "freed", data |-> 0, owner |-> 0]
                     ELSE [status |-> "unalloc", data |-> 0, owner |-> 0]]
        /\ controls = c.ctl
        /\ crashed = FALSE
        /\ last = Call("none", 0, DefaultSlot)

\* one call from each of these states
NextCreate == last.op = "none" /\ CreateBaseFrom(WindowBase, TRUE)

SpecCreate == InitCreate /\ [][NextCreate]_vars

\* the slots of windows, attached, read and detached, and what a teardown
\* leaves of them
NextData ==
    \/ CreateBaseFrom(PlainBase, FALSE)
    \/ SetHandleData(TRUE)
    \/ SetHandleDataOffAt(Offsets, PrivateData, TRUE)
    \/ FreeHandleData(TRUE)
    \/ FreeHandleDataOff(TRUE)
    \/ FreeHandle(FALSE)

SpecData == Init /\ [][NextData]_vars

\* ---- properties of the teardown (Spec)

Notices(log, d) == {i \in DOMAIN log : log[i].ev = "notice" /\ log[i].h = d}
ReclaimEvs == {"reclaim", "reclaim_null", "reclaim_freed"}
Reclaims(log, d) == {i \in DOMAIN log : log[i].ev \in ReclaimEvs /\ log[i].h = d}
Descendants == DOMAIN last.tree
Completed(op) == last.op = op /\ last.acted /\ ~crashed

\* C1: in a teardown, every descendant has received the destroy notice
\* before the metadata of any descendant is reclaimed
C1_NoticeBeforeAnyFree ==
    \A d \in Descendants : \A i \in Reclaims(last.log, d) :
        \A e \in Descendants : \E j \in Notices(last.log, e) : j < i

\* a completed free_handle over two levels of descendants that reclaimed the
\* metadata of one of them
C1_Witness ==
    /\ Completed("free_handle")
    /\ \E d \in Descendants : last.tree[d] # last.h
    /\ \E d \in Descendants : \E i \in Reclaims(last.log, d) :
          last.log[i].ev = "reclaim"

\* C2: one free_handle on a handle with metadata delivers the destroy notice
\* to every descendant exactly once
C2_NoticeExactlyOnce ==
    Completed("free_handle") =>
        \A d \in Descendants : Cardinality(Notices(last.log, d)) = 1

\* C3: every default slot is null or refers to a live payload owned by its
\* handle, and no call reclaims a payload twice or reclaims a null slot
C3_SlotsOwnedReclaimsSound ==
    /\ \A h \in Handles :
          LET p == longs[h][GWLP_USERDATA] IN
          p = NULL \/ (heap[p].status = "live" /\ heap[p].owner = h)
    /\ \A i \in DOMAIN last.log :
          last.log[i].ev \notin {"reclaim_null", "reclaim_freed"}

\* C4: a free_handle right after a free_handle on the same handle does
\* nothing: it makes no call and leaves the state as the first call left it
C4_SecondFreeHandleNoOp ==
    [][(last'.op = "free_handle" /\ last'.rep) =>
          /\ last'.log = <<>>
          /\ UNCHANGED <<wnd, longs, heap, controls, crashed>>
      ]_vars

\* a second free_handle on a handle the first one tore down
C4_Witness ==
    /\ last.op = "free_handle" /\ last.rep /\ last.rep_acted
    /\ wnd[last.h].st = "destroyed"

\* C6: destroy_control on a handle without identity record returns NO_UI and
\* destroys nothing: windows, slots, payloads and collection stay as they were
C6_NoUiDestroysNothing ==
    [][(last'.op = "destroy_control" /\ longs[last'.h][GWLP_USERDATA] = NULL) =>
          /\ last'.res = [ok |-> FALSE, val |-> "NO_UI"]
          /\ last'.log = <<>>
          /\ UNCHANGED <<wnd, longs, heap, controls, crashed>>
      ]_vars

\* destroy_control answered NO_UI for a live window
C6_Witness ==
    /\ last.op = "destroy_control" /\ ~last.acted
    /\ last.res.val = "NO_UI"
    /\ wnd[last.h].st = "created"

\* ---- properties of the slots (SpecData)

\* reading a slot of a window as the getters do
Read(h, slot) ==
    IF slot = DefaultSlot THEN get_handle_data(Mach(0), h)
    ELSE get_handle_data_off(Mach(0), h, slot)

AllSlots == {DefaultSlot} \cup Offsets
AttachOps == {"set_handle_data", "set_handle_data_off"}
DetachOps == {"free_handle_data", "free_handle_data_off"}

\* C9: a read after an attach returns the payload written, a read after a
\* detach returns None, and a slot operation leaves every other slot's read
C9_SlotRoundTrip ==
    /\ [](/\ last.op \in AttachOps =>
               /\ Read(last.h, last.slot) = Some(last.p)
               /\ heap[last.p] = [status |-> "live", data |-> last.arg,
                                  owner |-> last.h]
          /\ last.op \in DetachOps => Read(last.h, last.slot) = None)
    /\ [][last'.op \in AttachOps \cup DetachOps =>
            \A h \in Handles, s \in AllSlots :
                (h # last'.h \/ s # last'.slot) => Read(h, s)' = Read(h, s)]_vars

\* an offset slot was detached while another slot of the window holds data
C9_Witness ==
    /\ last.op = "free_handle_data_off"
    /\ Read(last.h, last.slot) = None
    /\ \E s \in AllSlots : s # last.slot /\ Read(last.h, s).some

\* C8: no payload outlives the teardown of its window: once free_handle has
\* destroyed a window (the handle it was called on, or a descendant), no
\* payload attached to that window, at any slot, remains allocated
C8_NoPayloadOutlivesTeardown ==
    \A p \in Ptrs : heap[p].status = "live" =>
        wnd[heap[p].owner].st # "destroyed"

\* ---- properties of creation (SpecCreate)

Created == last.op = "create_base" /\ last.res.ok
OsCalls(name) == {i \in DOMAIN last.log : last.log[i].ev = name}
\* the style create_base hands to CreateWindowExW
StylePassed == last.log[CHOOSE i \in OsCalls("CreateWindowExW") : TRUE].flags

AbsentParent ==
    /\ last.op = "create_base"
    /\ last.base.parent # 0
    /\ controls[last.base.parent] = 0

\* C5 as stated: with a parent identifier absent from the collection,
\* create_base fails before any OS call is made
C5_FailsBeforeAnyOsCall ==
    AbsentParent => (~last.res.ok /\ last.log = <<>>)

\* C5 as amended: with a parent identifier absent from the collection,
\* create_base fails with its unit error having called GetModuleHandleW and
\* nothing else: no window is created and no subclass installed
C5_FailsBeforeWindowCreation ==
    AbsentParent =>
        /\ last.res = Err
        /\ last.log = <<OsEv("GetModuleHandleW", NULL, {})>>

C5_Witness == AbsentParent /\ \E h \in Handles : wnd[h].st = "unbound"

TopLevelFixed ==
    /\ last.op = "create_base"
    /\ last.base.parent = 0
    /\ ~last.base.resizable

\* C7 as stated: without parent and with resizable=false, whatever visible
\* and extra_style are, the style excludes WS_CHILD and includes WS_CAPTION
\* and WS_SYSMENU
C7_StyleExcludesChild ==
    TopLevelFixed =>
        /\ StylePassed \cap WS_CHILD = {}
        /\ WS_CAPTION \subseteq StylePassed
        /\ WS_SYSMENU \subseteq StylePassed

\* C7 as amended: without parent and with resizable=false the style includes
\* WS_CAPTION and WS_SYSMENU, and holds WS_CHILD exactly when extra_style does
C7_StyleOfFixedTopLevel ==
    TopLevelFixed =>
        /\ WS_CHILD \subseteq StylePassed <=> WS_CHILD \subseteq last.base.extra_style
        /\ WS_CAPTION \subseteq StylePassed
        /\ WS_SYSMENU \subseteq StylePassed

C7_Witness == TopLevelFixed /\ Created /\ last.base.extra_style = {}

\* C10: a successful create_base calls fix_overlapped_window_size exactly
\* when the descriptor has no parent and is resizable
C10_ResizeIffTopLevelResizable ==
    Created =>
        (OsCalls("fix_overlapped_window_size") # {}
            <=> (last.base.parent = 0 /\ last.base.resizable))
====
